---- MODULE Spec2Model ----
(***************************************************************************)
(* Model of src/app.js (EvoVendors backend): phone-number signup / login   *)
(* with one-time codes, bearer tokens, and owner-scoped product / service  *)
(* records with GridFS attachments.                                        *)
(*                                                                         *)
(* Granularity: one action per database round trip of a handler.  The code *)
(* between two awaits runs without interruption on the node event loop,    *)
(* so it belongs to the action of the await it follows.  A request whose   *)
(* handler is suspended at an await occupies a slot of reqs.               *)
(* Each single store operation (findOne, updateOne, insertOne, deleteOne)  *)
(* is taken as one atomic step of the store; store operations do not fail. *)
(* A field of a request (req.params.id, a field of req.body) is drawn at   *)
(* the step that first reads it: until then nothing depends on it.         *)
(* last holds the response the step just taken sent, and NoResp after a    *)
(* step that sent none; okCount counts responses and trace logs them.  No  *)
(* handler reads them.                                                     *)
(***************************************************************************)
EXTENDS Integers, Sequences, FiniteSets, TLC

MaxPhones == 2      \* phone numbers 1..MaxPhones
MaxReqs == 2        \* requests suspended at an await at the same time
MaxProfiles == 2    \* distinct (username, businessName, name, email) tuples
MaxIds == 4         \* ObjectIds the store and the driver hand out

Phones == 1..MaxPhones
Slots == 1..MaxReqs
Profiles == 1..MaxProfiles
Ids == 1..MaxIds

VARIABLES
  users,      \* collection 'users': _id -> [phoneNumber, profile, status]
  tokens,     \* the tokens jwt.sign has issued
  now,        \* the clock jwt.sign and jwt.verify read, in whole seconds
  nextId,     \* next fresh ObjectId
  reqs,       \* slot -> the request suspended there (op = "idle" when free)
  last,       \* the response sent by the step just taken (NoResp when none)
  okCount,    \* per phone number: 'Signup successful' answers sent so far
  trace,      \* the answers sent so far, in order, while the log has room
  products,   \* collection 'products': _id -> document
  services,   \* collection 'services': _id -> document
  blobs,      \* GridFS bucket 'uploads': ids of the stored files
  uploading,  \* ids of the upload streams opened and not yet finished
  dispatched  \* phone numbers for which verifications.create has resolved

vars == <<users, tokens, now, nextId, reqs, last, okCount, trace, products, services, blobs, uploading,
          dispatched>>

catVars == <<products, services, blobs, uploading>>

----------------------------------------------------------------------------
(* Requests and responses *)

\* a request body of the catalog routes: has = the fields the body supplies
NoBody == [has |-> {}, name |-> 0, images |-> <<>>, videos |-> <<>>]

\* a catalog document; name stands for the scalar fields of the route
\* (productName .. productPolicies, serviceName .. selectedEventTypes), which
\* the code treats alike
NoDoc == [name |-> 0, images |-> <<>>, videos |-> <<>>, userId |-> 0]

\* no Authorization header
NoCred == [kind |-> "none", phoneNumber |-> 0, iat |-> 0, exp |-> 0]

Idle == [op |-> "idle", pc |-> "", phoneNumber |-> 0, profile |-> 0, found |-> "",
         coll |-> "", uid |-> 0, id |-> 0, body |-> NoBody, snapshot |-> NoDoc,
         files |-> <<>>, cred |-> NoCred]

AuthReq(o, pc0, p, prof, f) ==
  [Idle EXCEPT !.op = o, !.pc = pc0, !.phoneNumber = p, !.profile = prof, !.found = f]

NoResp == [op |-> "none", coll |-> "", phoneNumber |-> 0, profile |-> 0, uid |-> 0, id |-> 0,
           body |-> NoBody, files |-> <<>>, cred |-> NoCred, status |-> 0, msg |-> ""]

\* the response of an identity route
Resp(o, p, s, m) == [NoResp EXCEPT !.op = o, !.phoneNumber = p, !.status = s, !.msg = m]

\* the response of POST /signup to a request with profile fields prof
SignupResp(p, prof, s, m) == [Resp("signup", p, s, m) EXCEPT !.profile = prof]

\* the response of a catalog route to the request r
CatResp(r, s, m) ==
  [op |-> r.op, coll |-> r.coll, phoneNumber |-> r.phoneNumber, profile |-> 0, uid |-> r.uid,
   id |-> r.id, body |-> r.body, files |-> r.files, cred |-> r.cred, status |-> s, msg |-> m]

FreeSlot(i) == reqs[i].op = "idle" /\ \A j \in Slots : j < i => reqs[j].op # "idle"

MaxRun == 4         \* answers the log holds

\* the row of phone number p as an answer's observer sees it
RowOf(us, p) ==
  IF \E u \in DOMAIN us : us[u].phoneNumber = p
    THEN LET r == CHOOSE x \in DOMAIN us : us[x].phoneNumber = p IN
         [status |-> us[r].status, profile |-> us[r].profile]
    ELSE [status |-> "none", profile |-> 0]

\* a log entry: an answer and the row of its phone number right after it
Entry(resp, us) ==
  [op |-> resp.op, phoneNumber |-> resp.phoneNumber, status |-> resp.status,
   msg |-> resp.msg, row |-> RowOf(us, resp.phoneNumber)]

\* the log after a step that sent resp (NoResp: nothing sent)
Log(tr, resp, us) ==
  IF resp.op = "none" \/ Len(tr) >= MaxRun THEN tr ELSE Append(tr, Entry(resp, us))

\* a log without room: nothing is recorded
FullLog == [k \in 1..MaxRun |-> Entry(NoResp, <<>>)]

----------------------------------------------------------------------------
(* Tokens: jwt.sign, jwt.verify and the middleware authenticateToken.  Times *)
(* are the whole seconds of the token's iat and exp claims.                 *)

ExpiresIn == 32400  \* expiresIn: '9h', in seconds

\* jwt.sign({ phoneNumber }, secretKey, { expiresIn: '9h' }) at time t
jwtSign(p, t) == [kind |-> "jwt", phoneNumber |-> p, iat |-> t, exp |-> t + ExpiresIn]

\* a token for p that was not signed with secretKey
Forged(p) == [kind |-> "forged", phoneNumber |-> p, iat |-> 0, exp |-> 2 * ExpiresIn]

\* mutant of jwtVerify: the expiry is not checked
jwtVerifyIgnoreExpiration(c, t) == IF c.kind = "jwt" THEN c.phoneNumber ELSE 0

\* jwt.verify(token, secretKey) at time t: the phoneNumber of the payload, or
\* 0 for an error (bad signature, or expired: t >= exp)
jwtVerify(c, t) == IF c.kind = "jwt" /\ t < c.exp THEN c.phoneNumber ELSE 0

\* mutant of authenticateToken: the payload is decoded and not verified
authenticateTokenDecodeOnly(c, t) ==
  IF c.kind = "none" THEN [status |-> 401, msg |-> "Token required", phoneNumber |-> 0]
  ELSE [status |-> 0, msg |-> "", phoneNumber |-> c.phoneNumber]

\* the middleware: status 401 or 403 when it answers itself, status 0 and
\* req.user.phoneNumber when it calls next()
authenticateToken(c, t) ==
  IF c.kind = "none" THEN [status |-> 401, msg |-> "Token required", phoneNumber |-> 0]
  ELSE IF jwtVerify(c, t) = 0
    THEN [status |-> 403, msg |-> "Token is invalid", phoneNumber |-> 0]
    ELSE [status |-> 0, msg |-> "", phoneNumber |-> jwtVerify(c, t)]

----------------------------------------------------------------------------
(* The users collection *)

MinOf(S) == CHOOSE x \in S : \A y \in S : x <= y

\* ids of the rows with this phoneNumber
ByPhone(us, p) == {u \in DOMAIN us : us[u].phoneNumber = p}

\* ids of the rows with this phoneNumber and status
ByPhoneStatus(us, p, st) == {u \in DOMAIN us : us[u].phoneNumber = p /\ us[u].status = st}

\* findOne: the first matching row in natural order, 0 when none matches
FindOne(matches) == IF matches = {} THEN 0 ELSE MinOf(matches)

\* mutant of SignupWrite: a plain insert instead of the upsert keyed on
\* phoneNumber
SignupInsert(us, p, prof, newId) ==
  us @@ (newId :> [phoneNumber |-> p, profile |-> prof, status |-> "pending"])

\* updateOne({phoneNumber}, {$set: {phoneNumber, ...profile, status:'pending'}},
\*           {upsert: true})
SignupWrite(us, p, prof, newId) ==
  LET u == FindOne(ByPhone(us, p)) IN
  IF u # 0
    THEN [us EXCEPT ![u] = [phoneNumber |-> p, profile |-> prof, status |-> "pending"]]
    ELSE us @@ (newId :> [phoneNumber |-> p, profile |-> prof, status |-> "pending"])

\* the filter of the verify-signup update: {phoneNumber, status: 'pending'}
VerifyFilter(us, p) == ByPhoneStatus(us, p, "pending")

\* mutant of LoginFilter: the status is left out of the filter
LoginFilterAnyStatus(us, p) == ByPhone(us, p)

\* the filter of the login / verify-login lookup: {phoneNumber, status: 'verified'}
LoginFilter(us, p) == ByPhoneStatus(us, p, "verified")

----------------------------------------------------------------------------
(* POST /signup *)

\* mutant of SignupFind: the branch for a verified row is missing
SignupFindNoVerifiedCheck(i, p, prof) ==
  /\ FreeSlot(i)
  /\ last' = NoResp
  /\ reqs' = [reqs EXCEPT ![i] =
       AuthReq("signup", "dispatch", p, prof,
               IF FindOne(ByPhone(users, p)) # 0 THEN "pending" ELSE "none")]
  /\ UNCHANGED <<users, tokens, now, nextId, okCount, catVars, dispatched>>
  /\ trace' = Log(trace, last', users')

\* arrival, findOne({phoneNumber}) and the branch on its result
SignupFind(i, p, prof) ==
  /\ FreeSlot(i)
  /\ LET u == FindOne(ByPhone(users, p)) IN
     IF u # 0 /\ users[u].status = "verified"
       THEN /\ last' = SignupResp(p, prof, 400, "You have already signed up and are verified.")
            /\ reqs' = reqs
       ELSE /\ last' = NoResp
            /\ reqs' = [reqs EXCEPT ![i] =
                 AuthReq("signup", "dispatch", p, prof, IF u # 0 THEN "pending" ELSE "none")]
  /\ UNCHANGED <<users, tokens, now, nextId, okCount, catVars, dispatched>>
  /\ trace' = Log(trace, last', users')

\* mutant of SignupDispatch: the retry for an existing pending row goes on
\* to the upsert as a first signup does
SignupDispatchRetryUpserts(i, sent) ==
  /\ reqs[i].op = "signup" /\ reqs[i].pc = "dispatch"
  /\ IF ~sent
       THEN /\ last' = SignupResp(reqs[i].phoneNumber, reqs[i].profile, 500, "error")
            /\ reqs' = [reqs EXCEPT ![i] = Idle]
       ELSE /\ last' = NoResp
            /\ reqs' = [reqs EXCEPT ![i].pc = "upsert"]
  /\ UNCHANGED <<users, tokens, now, nextId, okCount, catVars>>
  /\ dispatched' = IF sent THEN dispatched \cup {reqs[i].phoneNumber} ELSE dispatched
  /\ trace' = Log(trace, last', users')

\* mutant of SignupDispatch: a first signup goes on to the upsert although
\* verifications.create threw
SignupDispatchFailureIgnored(i, sent) ==
  /\ reqs[i].op = "signup" /\ reqs[i].pc = "dispatch"
  /\ IF reqs[i].found = "pending"
       THEN /\ last' = IF sent
                         THEN SignupResp(reqs[i].phoneNumber, reqs[i].profile, 200,
                                         "OTP sent again for signup")
                         ELSE SignupResp(reqs[i].phoneNumber, reqs[i].profile, 500, "error")
            /\ reqs' = [reqs EXCEPT ![i] = Idle]
       ELSE /\ last' = NoResp
            /\ reqs' = [reqs EXCEPT ![i].pc = "upsert"]
  /\ UNCHANGED <<users, tokens, now, nextId, okCount, catVars>>
  /\ dispatched' = IF sent THEN dispatched \cup {reqs[i].phoneNumber} ELSE dispatched
  /\ trace' = Log(trace, last', users')

\* verifications.create resolves or throws; for an existing pending row the
\* handler answers here
SignupDispatch(i, sent) ==
  /\ reqs[i].op = "signup" /\ reqs[i].pc = "dispatch"
  /\ IF ~sent
       THEN /\ last' = SignupResp(reqs[i].phoneNumber, reqs[i].profile, 500, "error")
            /\ reqs' = [reqs EXCEPT ![i] = Idle]
       ELSE IF reqs[i].found = "pending"
         THEN /\ last' = SignupResp(reqs[i].phoneNumber, reqs[i].profile, 200,
                                    "OTP sent again for signup")
              /\ reqs' = [reqs EXCEPT ![i] = Idle]
         ELSE /\ last' = NoResp
              /\ reqs' = [reqs EXCEPT ![i].pc = "upsert"]
  /\ UNCHANGED <<users, tokens, now, nextId, okCount, catVars>>
  /\ dispatched' = IF sent THEN dispatched \cup {reqs[i].phoneNumber} ELSE dispatched
  /\ trace' = Log(trace, last', users')

\* the upsert and the answer
SignupUpsert(i) ==
  /\ reqs[i].op = "signup" /\ reqs[i].pc = "upsert"
  /\ nextId <= MaxIds
  /\ users' = SignupWrite(users, reqs[i].phoneNumber, reqs[i].profile, nextId)
  /\ nextId' = IF DOMAIN users' = DOMAIN users THEN nextId ELSE nextId + 1
  /\ last' = SignupResp(reqs[i].phoneNumber, reqs[i].profile, 200, "OTP sent for signup")
  /\ reqs' = [reqs EXCEPT ![i] = Idle]
  /\ UNCHANGED <<tokens, now, okCount, catVars, dispatched>>
  /\ trace' = Log(trace, last', users')

----------------------------------------------------------------------------
(* POST /verify-signup *)

Verdicts == {"approved", "pending", "error"}

\* arrival and verificationChecks.create: the provider's verdict, or a throw
VerifySignupCheck(i, p, verdict) ==
  /\ FreeSlot(i)
  /\ IF verdict = "approved"
       THEN /\ last' = NoResp
            /\ reqs' = [reqs EXCEPT ![i] =
                 AuthReq("verify-signup", "update", p, 0, "")]
       ELSE /\ last' = IF verdict = "error"
                         THEN Resp("verify-signup", p, 500, "error")
                         ELSE Resp("verify-signup", p, 400, verdict)
            /\ reqs' = reqs
  /\ UNCHANGED <<users, tokens, now, nextId, okCount, catVars, dispatched>>
  /\ trace' = Log(trace, last', users')

\* updateOne({phoneNumber, status:'pending'}, {$set: {status:'verified'}})
VerifySignupUpdate(i) ==
  /\ reqs[i].op = "verify-signup" /\ reqs[i].pc = "update"
  /\ LET p == reqs[i].phoneNumber
         u == FindOne(VerifyFilter(users, p)) IN
     IF u = 0
       THEN /\ last' = Resp("verify-signup", p, 400, "User not registered or already verified")
            /\ UNCHANGED <<users, okCount>>
       ELSE /\ users' = [users EXCEPT ![u].status = "verified"]
            /\ last' = Resp("verify-signup", p, 200, "Signup successful")
            /\ okCount' = [okCount EXCEPT ![p] = @ + 1]
  /\ reqs' = [reqs EXCEPT ![i] = Idle]
  /\ UNCHANGED <<tokens, now, nextId, catVars, dispatched>>
  /\ trace' = Log(trace, last', users')

----------------------------------------------------------------------------
(* POST /login *)

LoginFind(i, p) ==
  /\ FreeSlot(i)
  /\ IF FindOne(LoginFilter(users, p)) # 0
       THEN /\ last' = NoResp
            /\ reqs' = [reqs EXCEPT ![i] =
                 AuthReq("login", "dispatch", p, 0, "")]
       ELSE /\ last' = Resp("login", p, 400, "User not registered or not verified")
            /\ reqs' = reqs
  /\ UNCHANGED <<users, tokens, now, nextId, okCount, catVars, dispatched>>
  /\ trace' = Log(trace, last', users')

LoginDispatch(i, sent) ==
  /\ reqs[i].op = "login" /\ reqs[i].pc = "dispatch"
  /\ last' = IF sent THEN Resp("login", reqs[i].phoneNumber, 200, "OTP sent for login")
                     ELSE Resp("login", reqs[i].phoneNumber, 500, "error")
  /\ reqs' = [reqs EXCEPT ![i] = Idle]
  /\ UNCHANGED <<users, tokens, now, nextId, okCount, catVars>>
  /\ dispatched' = IF sent THEN dispatched \cup {reqs[i].phoneNumber} ELSE dispatched
  /\ trace' = Log(trace, last', users')

----------------------------------------------------------------------------
(* POST /verify-login *)

VerifyLoginCheck(i, p, verdict) ==
  /\ FreeSlot(i)
  /\ IF verdict = "approved"
       THEN /\ last' = NoResp
            /\ reqs' = [reqs EXCEPT ![i] =
                 AuthReq("verify-login", "find", p, 0, "")]
       ELSE /\ last' = IF verdict = "error"
                         THEN Resp("verify-login", p, 500, "error")
                         ELSE Resp("verify-login", p, 400, verdict)
            /\ reqs' = reqs
  /\ UNCHANGED <<users, tokens, now, nextId, okCount, catVars, dispatched>>
  /\ trace' = Log(trace, last', users')

\* findOne({phoneNumber, status:'verified'}), then jwt.sign and the answer
VerifyLoginFind(i) ==
  /\ reqs[i].op = "verify-login" /\ reqs[i].pc = "find"
  /\ LET p == reqs[i].phoneNumber IN
     IF FindOne(LoginFilter(users, p)) # 0
       THEN /\ tokens' = tokens \cup {jwtSign(p, now)}
            /\ last' = Resp("verify-login", p, 200, "Login successful")
       ELSE /\ tokens' = tokens
            /\ last' = Resp("verify-login", p, 400, "User not registered or not verified")
  /\ reqs' = [reqs EXCEPT ![i] = Idle]
  /\ UNCHANGED <<users, now, nextId, okCount, catVars, dispatched>>
  /\ trace' = Log(trace, last', users')

----------------------------------------------------------------------------
Init ==
  /\ users = <<>>
  /\ tokens = {}
  /\ now = 0
  /\ nextId = 1
  /\ reqs = [i \in Slots |-> Idle]
  /\ last = NoResp
  /\ okCount = [p \in Phones |-> 0]
  /\ trace = FullLog
  /\ products = <<>>
  /\ services = <<>>
  /\ blobs = {}
  /\ uploading = {}
  /\ dispatched = {}

Next ==
  \/ \E i \in Slots, p \in Phones, prof \in Profiles : SignupFind(i, p, prof)
  \/ \E i \in Slots, sent \in BOOLEAN : SignupDispatch(i, sent)
  \/ \E i \in Slots : SignupUpsert(i)
  \/ \E i \in Slots, p \in Phones, v \in Verdicts : VerifySignupCheck(i, p, v)
  \/ \E i \in Slots : VerifySignupUpdate(i)
  \/ \E i \in Slots, p \in Phones : LoginFind(i, p)
  \/ \E i \in Slots, sent \in BOOLEAN : LoginDispatch(i, sent)
  \/ \E i \in Slots, p \in Phones, v \in Verdicts : VerifyLoginCheck(i, p, v)
  \/ \E i \in Slots : VerifyLoginFind(i)

Spec == Init /\ [][Next]_vars

----------------------------------------------------------------------------
(* One client that sends /signup and /verify-signup requests one after the *)
(* other, each after the answer to the one before, MaxRun requests in all;  *)
(* the answers are logged.                                                  *)

Quiet == \A i \in Slots : reqs[i].op = "idle"

SeqSignupFind(i, p, prof) ==
  /\ Quiet /\ Len(trace) < MaxRun
  /\ SignupFind(i, p, prof)

SeqVerifySignupCheck(i, p, verdict) ==
  /\ Quiet /\ Len(trace) < MaxRun
  /\ VerifySignupCheck(i, p, verdict)

InitSeq ==
  /\ users = <<>>
  /\ tokens = {}
  /\ now = 0
  /\ nextId = 1
  /\ reqs = [i \in Slots |-> Idle]
  /\ last = NoResp
  /\ okCount = [p \in Phones |-> 0]
  /\ trace = <<>>
  /\ products = <<>>
  /\ services = <<>>
  /\ blobs = {}
  /\ uploading = {}
  /\ dispatched = {}

NextSeq ==
  \/ \E i \in Slots, p \in Phones, prof \in Profiles : SeqSignupFind(i, p, prof)
  \/ \E i \in Slots, sent \in BOOLEAN : SignupDispatch(i, sent)
  \/ \E i \in Slots : SignupUpsert(i)
  \/ \E i \in Slots, p \in Phones, v \in Verdicts : SeqVerifySignupCheck(i, p, v)
  \/ \E i \in Slots : VerifySignupUpdate(i)

SpecSeq == InitSeq /\ [][NextSeq]_vars

----------------------------------------------------------------------------
(* The catalog: collections 'products' and 'services', GridFS bucket       *)
(* 'uploads'.  The two families of routes are the same code up to the      *)
(* collection and the field names; c names the collection.                 *)

Colls == {"products", "services"}

Coll(c) == IF c = "products" THEN products ELSE services

Fields == {"name", "images", "videos"}

MaxVals == 2        \* values of a scalar field: 1..MaxVals
MaxFiles == 1       \* files of one multipart upload
MaxBodyFields == 1  \* fields one PUT body supplies
MaxDocs == 1        \* documents created and being created, both collections

Vals == 1..MaxVals

\* what file.mimetype starts with: 'image/', 'video/', or neither
Kinds == {"image", "video", "other"}

Batches == UNION {[1..n -> Kinds] : n \in 0..MaxFiles}

\* req.params.id: an ObjectId handed out so far (the id of a document, of a
\* file or of a user), or 0 for a string new ObjectId() rejects
TargetIds == 0..(nextId - 1)

\* a handle a client can put in a body that GridFS never handed out
BogusHandle == MaxIds + 1

HandleLists == {<<BogusHandle>>}

\* the bodies of a PUT: any subset of the fields, fields left out being
\* undefined after the destructuring
Bodies ==
  {b \in [has : SUBSET Fields, name : 0..MaxVals,
          images : HandleLists \cup {<<>>}, videos : HandleLists \cup {<<>>}] :
     /\ Cardinality(b.has) <= MaxBodyFields
     /\ (b.name = 0) = ("name" \notin b.has)
     /\ ("images" \in b.has) = (b.images # <<>>)
     /\ ("videos" \in b.has) = (b.videos # <<>>)}

\* mutant of CallerFilter: the status is left out of the filter
CallerFilterAnyStatus(us, p) == ByPhone(us, p)

\* findOne({phoneNumber: phoneNumberFromToken, status: 'verified'})
CallerFilter(us, p) == ByPhoneStatus(us, p, "verified")

\* mutant of GetLookup: the owner is left out of the filter
GetLookupAnyOwner(coll, id, uid) == id \in DOMAIN coll

\* GET :id, findOne({_id, userId: user._id}) finds a document
GetLookup(coll, id, uid) == id \in DOMAIN coll /\ coll[id].userId = uid

\* mutant of PutLookup: the owner is left out of the filter
PutLookupAnyOwner(coll, id, uid) == id \in DOMAIN coll

\* PUT :id, findOne({_id, userId: user._id}) finds a document
PutLookup(coll, id, uid) == id \in DOMAIN coll /\ coll[id].userId = uid

\* mutant of DeleteMatch: the owner is left out of the filter
DeleteMatchAnyOwner(coll, id, uid) == id \in DOMAIN coll

\* DELETE :id, deleteOne({_id, userId: user._id}) matches a document
DeleteMatch(coll, id, uid) == id \in DOMAIN coll /\ coll[id].userId = uid

\* mutant of Merge: the document is built from the fields of the route only,
\* without the spread of the document read, so its userId is lost
MergeWithoutOwner(doc, b) ==
  [name   |-> IF "name" \in b.has THEN b.name ELSE doc.name,
   images |-> IF "images" \in b.has THEN b.images ELSE doc.images,
   videos |-> IF "videos" \in b.has THEN b.videos ELSE doc.videos,
   userId |-> 0]

\* mutant of Merge: the body's fields are copied without the
\* '!== undefined' guards, so a field left out overwrites the stored one
MergeUnguarded(doc, b) ==
  [name |-> b.name, images |-> b.images, videos |-> b.videos, userId |-> doc.userId]

\* updatedProduct / updatedService: { ...doc, ...(f !== undefined && { f }) }
Merge(doc, b) ==
  [name   |-> IF "name" \in b.has THEN b.name ELSE doc.name,
   images |-> IF "images" \in b.has THEN b.images ELSE doc.images,
   videos |-> IF "videos" \in b.has THEN b.videos ELSE doc.videos,
   userId |-> doc.userId]

\* the elements of ids whose file is of kind k, in order
RECURSIVE IdsOfKind(_, _, _)
IdsOfKind(files, first, k) ==
  IF files = <<>> THEN <<>>
  ELSE (IF Head(files) = k THEN <<first>> ELSE <<>>) \o IdsOfKind(Tail(files), first + 1, k)

SetColl(c, new) ==
  /\ products' = IF c = "products" THEN new ELSE products
  /\ services' = IF c = "services" THEN new ELSE services

Without(coll, id) == [x \in DOMAIN coll \ {id} |-> coll[x]]

CatReq(o, pc0, p, u) ==
  [Idle EXCEPT !.op = o, !.pc = pc0, !.phoneNumber = p, !.uid = u]

\* the credentials a client can present: none, a token the server issued,
\* or one it did not sign
Creds == {NoCred} \cup tokens \cup {Forged(p) : p \in Phones}

\* authenticateToken calls next() with req.user.phoneNumber = p, then the
\* lookup of the caller; r is the request as it stands if the caller resolves
Resolve(i, p, r) ==
  /\ FreeSlot(i)
  /\ \E c \in Creds :
       /\ authenticateToken(c, now).status = 0
       /\ authenticateToken(c, now).phoneNumber = p
       /\ IF r.uid = 0
            THEN /\ last' = CatResp([r EXCEPT !.cred = c], 400,
                                    "User not registered or not verified")
                 /\ reqs' = reqs
            ELSE /\ last' = NoResp
                 /\ reqs' = [reqs EXCEPT ![i] = [r EXCEPT !.cred = c]]

(* POST /vendor/products, POST /vendor/services *)

\* caller lookup; then, without an await, one upload stream per file is
\* opened and ended and insertOne is called with the ids of the streams
CreateResolve(i, p, files) ==
  LET u == FindOne(CallerFilter(users, p))
      n == Len(files)
      r == [CatReq("create", "insert", p, u) EXCEPT !.files = files] IN
  /\ nextId + n <= MaxIds
  /\ Cardinality(DOMAIN products) + Cardinality(DOMAIN services)
       + Cardinality({j \in Slots : reqs[j].op = "create"}) < MaxDocs
  /\ Resolve(i, p, IF u = 0 THEN r ELSE
       [r EXCEPT !.id = nextId + n,
                 !.body = [NoBody EXCEPT !.images = IdsOfKind(files, nextId, "image"),
                                         !.videos = IdsOfKind(files, nextId, "video")]])
  /\ IF u = 0
       THEN UNCHANGED <<nextId, uploading>>
       ELSE /\ nextId' = nextId + n + 1
            /\ uploading' = uploading \cup (nextId .. nextId + n - 1)
  /\ UNCHANGED <<users, tokens, now, okCount, products, services, blobs, dispatched>>
  /\ trace' = Log(trace, last', users')

\* an upload stream finishes: its file document is written to the bucket
UploadFinish(h) ==
  /\ h \in uploading
  /\ uploading' = uploading \ {h}
  /\ blobs' = blobs \cup {h}
  /\ last' = NoResp
  /\ UNCHANGED <<users, tokens, now, nextId, reqs, okCount, products, services, dispatched>>
  /\ trace' = Log(trace, last', users')

\* insertOne(formData) and the answer
CreateInsert(i, c, name) ==
  /\ reqs[i].op = "create" /\ reqs[i].pc = "insert"
  /\ LET r == [reqs[i] EXCEPT !.coll = c]
         doc == [name |-> name, images |-> r.body.images,
                 videos |-> r.body.videos, userId |-> r.uid] IN
     /\ SetColl(c, Coll(c) @@ (r.id :> doc))
     /\ last' = CatResp(r, 201, "inserted successfully")
  /\ reqs' = [reqs EXCEPT ![i] = Idle]
  /\ UNCHANGED <<users, tokens, now, nextId, okCount, blobs, uploading, dispatched>>
  /\ trace' = Log(trace, last', users')

(* GET /vendor/products/:id, GET /vendor/services/:id *)

GetResolve(i, p) ==
  /\ Resolve(i, p, CatReq("get", "find", p, FindOne(CallerFilter(users, p))))
  /\ UNCHANGED <<users, tokens, now, nextId, okCount, catVars, dispatched>>
  /\ trace' = Log(trace, last', users')

\* the answer of the lookup step for a caller uid: new ObjectId(id) throws
\* (500), no document is found (404), or the document is returned
GetAnswer(coll, id, uid) ==
  IF id = 0 THEN [status |-> 500, msg |-> "Internal server error", doc |-> NoDoc]
  ELSE IF ~GetLookup(coll, id, uid) THEN [status |-> 404, msg |-> "not found", doc |-> NoDoc]
  ELSE [status |-> 200, msg |-> "document", doc |-> coll[id]]

GetFind(i, c, id) ==
  /\ reqs[i].op = "get" /\ reqs[i].pc = "find"
  /\ LET r == [reqs[i] EXCEPT !.coll = c, !.id = id]
         a == GetAnswer(Coll(c), id, r.uid) IN
     last' = CatResp(r, a.status, a.msg)
  /\ reqs' = [reqs EXCEPT ![i] = Idle]
  /\ UNCHANGED <<users, tokens, now, nextId, okCount, catVars, dispatched>>
  /\ trace' = Log(trace, last', users')

(* DELETE /vendor/products/:id, DELETE /vendor/services/:id *)

DeleteResolve(i, p) ==
  /\ Resolve(i, p, CatReq("delete", "delete", p, FindOne(CallerFilter(users, p))))
  /\ UNCHANGED <<users, tokens, now, nextId, okCount, catVars, dispatched>>
  /\ trace' = Log(trace, last', users')

DeleteOne(i, c, id) ==
  /\ reqs[i].op = "delete" /\ reqs[i].pc = "delete"
  /\ LET r == [reqs[i] EXCEPT !.coll = c, !.id = id] IN
     IF id = 0
       THEN /\ last' = CatResp(r, 500, "Internal server error")
            /\ UNCHANGED <<products, services>>
       ELSE IF DeleteMatch(Coll(c), id, r.uid)
         THEN /\ SetColl(c, Without(Coll(c), id))
              /\ last' = CatResp(r, 200, "deleted successfully")
         ELSE /\ last' = CatResp(r, 404, "not found or not authorized to delete")
              /\ UNCHANGED <<products, services>>
  /\ reqs' = [reqs EXCEPT ![i] = Idle]
  /\ UNCHANGED <<users, tokens, now, nextId, okCount, blobs, uploading, dispatched>>
  /\ trace' = Log(trace, last', users')

(* PUT /vendor/products/:id, PUT /vendor/services/:id *)

PutResolve(i, p) ==
  /\ Resolve(i, p, CatReq("put", "find", p, FindOne(CallerFilter(users, p))))
  /\ UNCHANGED <<users, tokens, now, nextId, okCount, catVars, dispatched>>
  /\ trace' = Log(trace, last', users')

\* findOne({_id, userId: user._id}); the document read is kept for the merge
PutFind(i, c, id) ==
  /\ reqs[i].op = "put" /\ reqs[i].pc = "find"
  /\ LET r == [reqs[i] EXCEPT !.coll = c, !.id = id] IN
     IF id = 0
       THEN /\ last' = CatResp(r, 500, "Internal server error")
            /\ reqs' = [reqs EXCEPT ![i] = Idle]
       ELSE IF PutLookup(Coll(c), id, r.uid)
         THEN /\ last' = NoResp
              /\ reqs' = [reqs EXCEPT ![i] = [r EXCEPT !.pc = "write", !.snapshot = Coll(c)[id]]]
         ELSE /\ last' = CatResp(r, 404, "not found or not authorized to edit")
              /\ reqs' = [reqs EXCEPT ![i] = Idle]
  /\ UNCHANGED <<users, tokens, now, nextId, okCount, catVars, dispatched>>
  /\ trace' = Log(trace, last', users')

\* updateOne({_id}, {$set: updated}): every field of the merged document is
\* written; modifiedCount is 1 only if a document matched and changed
PutWrite(i, b) ==
  /\ reqs[i].op = "put" /\ reqs[i].pc = "write"
  /\ LET r == [reqs[i] EXCEPT !.body = b]
         coll == Coll(r.coll)
         updated == Merge(r.snapshot, r.body) IN
     IF r.id \in DOMAIN coll /\ coll[r.id] # updated
       THEN /\ SetColl(r.coll, [coll EXCEPT ![r.id] = updated])
            /\ last' = CatResp(r, 200, "updated successfully")
       ELSE /\ UNCHANGED <<products, services>>
            /\ last' = CatResp(r, 500, "update failed")
  /\ reqs' = [reqs EXCEPT ![i] = Idle]
  /\ UNCHANGED <<users, tokens, now, nextId, okCount, blobs, uploading, dispatched>>
  /\ trace' = Log(trace, last', users')

(* GET /vendor/products, GET /vendor/services *)

ListResolve(i, p) ==
  /\ Resolve(i, p, CatReq("list", "find", p, FindOne(CallerFilter(users, p))))
  /\ UNCHANGED <<users, tokens, now, nextId, okCount, catVars, dispatched>>
  /\ trace' = Log(trace, last', users')

\* find({ userId: user._id }).toArray()
ListByOwner(coll, uid) == {id \in DOMAIN coll : coll[id].userId = uid}

\* the list is returned; an empty list of services is answered 404
ListFind(i, c) ==
  /\ reqs[i].op = "list" /\ reqs[i].pc = "find"
  /\ LET r == [reqs[i] EXCEPT !.coll = c] IN
     last' = IF c = "services" /\ ListByOwner(Coll(c), r.uid) = {}
               THEN CatResp(r, 404, "No services found")
               ELSE CatResp(r, 200, "list")
  /\ reqs' = [reqs EXCEPT ![i] = Idle]
  /\ UNCHANGED <<users, tokens, now, nextId, okCount, catVars, dispatched>>
  /\ trace' = Log(trace, last', users')

----------------------------------------------------------------------------
(* The catalog routes, started from a state the identity routes reach     *)
(* (InitCatalogReached, under Spec): every phone number has signed up, is  *)
(* verified and holds a token.                                             *)

InitCatalog ==
  /\ users = [u \in 1..MaxPhones |-> [phoneNumber |-> u, profile |-> 1, status |-> "verified"]]
  /\ tokens = {jwtSign(p, 0) : p \in Phones}
  /\ now = 0
  /\ nextId = MaxPhones + 1
  /\ reqs = [i \in Slots |-> Idle]
  /\ last = NoResp
  /\ okCount = [p \in Phones |-> 1]
  /\ trace = FullLog
  /\ products = <<>>
  /\ services = <<>>
  /\ blobs = {}
  /\ uploading = {}
  /\ dispatched = Phones

NextCatalog ==
  \/ \E i \in Slots, p \in Phones, files \in Batches : CreateResolve(i, p, files)
  \/ \E h \in Ids : UploadFinish(h)
  \/ \E i \in Slots, c \in Colls, name \in Vals : CreateInsert(i, c, name)
  \/ \E i \in Slots, p \in Phones : GetResolve(i, p)
  \/ \E i \in Slots, c \in Colls, id \in TargetIds : GetFind(i, c, id)
  \/ \E i \in Slots, p \in Phones : DeleteResolve(i, p)
  \/ \E i \in Slots, c \in Colls, id \in TargetIds : DeleteOne(i, c, id)
  \/ \E i \in Slots, p \in Phones : PutResolve(i, p)
  \/ \E i \in Slots, c \in Colls, id \in TargetIds : PutFind(i, c, id)
  \/ \E i \in Slots, b \in Bodies : PutWrite(i, b)

SpecCatalog == InitCatalog /\ [][NextCatalog]_vars

\* the state of InitCatalog, but for the response just sent
InitCatalogReached ==
  /\ users = [u \in 1..MaxPhones |-> [phoneNumber |-> u, profile |-> 1, status |-> "verified"]]
  /\ tokens = {jwtSign(p, 0) : p \in Phones}
  /\ now = 0
  /\ nextId = MaxPhones + 1
  /\ reqs = [i \in Slots |-> Idle]
  /\ okCount = [p \in Phones |-> 1]
  /\ catVars = <<<<>>, <<>>, {}, {}>>
  /\ dispatched = Phones

----------------------------------------------------------------------------
(* The catalog routes while a user's status changes.  InitCaller is a state *)
(* the identity routes reach (InitCallerReached, under Spec): every phone   *)
(* number is verified and holds a token, and a POST /signup for the last    *)
(* phone number, which had found no row, still waits to perform its upsert. *)

StaleSignup == AuthReq("signup", "upsert", MaxPhones, MaxProfiles, "none")

InitCaller ==
  /\ users = [u \in 1..MaxPhones |-> [phoneNumber |-> u, profile |-> 1, status |-> "verified"]]
  /\ tokens = {jwtSign(p, 0) : p \in Phones}
  /\ now = 0
  /\ nextId = MaxPhones + 1
  /\ reqs = [i \in Slots |-> IF i = 1 THEN StaleSignup ELSE Idle]
  /\ last = NoResp
  /\ okCount = [p \in Phones |-> 1]
  /\ trace = FullLog
  /\ products = <<>>
  /\ services = <<>>
  /\ blobs = {}
  /\ uploading = {}
  /\ dispatched = Phones

NextCaller ==
  \/ \E i \in Slots : SignupUpsert(i)
  \/ \E i \in Slots, p \in Phones, files \in Batches : CreateResolve(i, p, files)
  \/ \E h \in Ids : UploadFinish(h)
  \/ \E i \in Slots, c \in Colls, name \in Vals : CreateInsert(i, c, name)
  \/ \E i \in Slots, p \in Phones : ListResolve(i, p)
  \/ \E i \in Slots, c \in Colls : ListFind(i, c)
  \/ \E i \in Slots, p \in Phones : GetResolve(i, p)
  \/ \E i \in Slots, c \in Colls, id \in TargetIds : GetFind(i, c, id)
  \/ \E i \in Slots, p \in Phones : DeleteResolve(i, p)
  \/ \E i \in Slots, c \in Colls, id \in TargetIds : DeleteOne(i, c, id)
  \/ \E i \in Slots, p \in Phones : PutResolve(i, p)
  \/ \E i \in Slots, c \in Colls, id \in TargetIds : PutFind(i, c, id)
  \/ \E i \in Slots, b \in Bodies : PutWrite(i, b)

SpecCaller == InitCaller /\ [][NextCaller]_vars

\* the state of InitCaller, but for the response just sent
InitCallerReached ==
  /\ users = [u \in 1..MaxPhones |-> [phoneNumber |-> u, profile |-> 1, status |-> "verified"]]
  /\ tokens = {jwtSign(p, 0) : p \in Phones}
  /\ now = 0
  /\ nextId = MaxPhones + 1
  /\ reqs = [i \in Slots |-> IF i = 1 THEN StaleSignup ELSE Idle]
  /\ okCount = [p \in Phones |-> 1]
  /\ catVars = <<<<>>, <<>>, {}, {}>>
  /\ dispatched = Phones

----------------------------------------------------------------------------
(* The token-protected routes as time passes *)

\* the routes registered with authenticateToken
ProtectedOps == {"user", "create", "list", "get", "put", "delete"}

\* authenticateToken answers itself and does not call next()
Reject(route, c) ==
  /\ authenticateToken(c, now).status # 0
  /\ last' = [NoResp EXCEPT !.op = route, !.cred = c,
                            !.status = authenticateToken(c, now).status,
                            !.msg = authenticateToken(c, now).msg]
  /\ UNCHANGED <<users, tokens, now, nextId, reqs, okCount, catVars, dispatched>>
  /\ trace' = Log(trace, last', users')

(* GET /user/:id *)

\* new ObjectId(id) throws (500); findOne({ _id, phoneNumber }) finds nothing
\* (404) or the row, which is returned (200); uid is the _id of the row
\* returned
UserAnswer(us, id, p) ==
  IF id = 0 THEN [status |-> 500, msg |-> "Internal server error", uid |-> 0]
  ELSE IF id \in DOMAIN us /\ us[id].phoneNumber = p
    THEN [status |-> 200, msg |-> "user", uid |-> id]
    ELSE [status |-> 404, uid |-> 0,
          msg |-> "User not found or not authorized to access this information"]

UserGet(c, id) ==
  /\ authenticateToken(c, now).status = 0
  /\ LET p == authenticateToken(c, now).phoneNumber
         a == UserAnswer(users, id, p) IN
     last' = [NoResp EXCEPT !.op = "user", !.cred = c, !.phoneNumber = p, !.id = id,
                            !.uid = a.uid, !.status = a.status, !.msg = a.msg]
  /\ UNCHANGED <<users, tokens, now, nextId, reqs, okCount, catVars, dispatched>>
  /\ trace' = Log(trace, last', users')

\* the instants at which the clock is read
Instants == {0, 1, ExpiresIn}

\* time passes
Tick(t) ==
  /\ t > now
  /\ now' = t
  /\ last' = NoResp
  /\ UNCHANGED <<users, tokens, nextId, reqs, okCount, catVars, dispatched>>
  /\ trace' = Log(trace, last', users')

NextToken ==
  \/ \E t \in Instants : Tick(t)
  \/ \E i \in Slots, p \in Phones, v \in Verdicts : VerifyLoginCheck(i, p, v)
  \/ \E i \in Slots : VerifyLoginFind(i)
  \/ \E route \in ProtectedOps, c \in Creds : Reject(route, c)
  \/ \E c \in Creds, id \in TargetIds \cup {BogusHandle} : UserGet(c, id)
  \/ \E i \in Slots, p \in Phones : GetResolve(i, p)
  \/ \E i \in Slots, c \in Colls, id \in TargetIds : GetFind(i, c, id)

SpecToken == InitCatalog /\ [][NextToken]_vars

----------------------------------------------------------------------------
(* GET /image/:fileId, GET /video/:fileId: no token is asked for *)

StreamRoutes == {"image", "video"}

\* new ObjectId(fileId) throws and the catch answers 500; openDownloadStream
\* emits 'error' when the bucket holds no file with that id and the handler
\* answers 404; otherwise the chunks are written and the response ends (200)
StreamAnswer(bl, id) ==
  IF id = 0 THEN [status |-> 500, msg |-> "Internal server error"]
  ELSE IF id \notin bl THEN [status |-> 404, msg |-> "not found"]
  ELSE [status |-> 200, msg |-> "file"]

StreamFile(route, id) ==
  /\ last' = [NoResp EXCEPT !.op = route, !.id = id,
                            !.status = StreamAnswer(blobs, id).status,
                            !.msg = StreamAnswer(blobs, id).msg]
  /\ UNCHANGED <<users, tokens, now, nextId, reqs, okCount, catVars, dispatched>>
  /\ trace' = Log(trace, last', users')

\* creation with attachments and the streaming routes
NextFiles ==
  \/ \E i \in Slots, p \in Phones, files \in Batches : CreateResolve(i, p, files)
  \/ \E h \in Ids : UploadFinish(h)
  \/ \E i \in Slots, c \in Colls, name \in Vals : CreateInsert(i, c, name)
  \/ \E route \in StreamRoutes, id \in TargetIds \cup {BogusHandle} : StreamFile(route, id)

SpecFiles == InitCatalog /\ [][NextFiles]_vars

----------------------------------------------------------------------------
(* Properties of the identity routes, checked under Spec *)

\* C1: in every reachable state the users collection holds at most one row
\* per phoneNumber, also when several signups for one phone number all read
\* 'no existing user' before any of them writes.
OneUserPerPhone == \A p \in Phones : Cardinality(ByPhone(users, p)) <= 1

\* C1 witness: a signup that had read 'no existing user' has just performed
\* its upsert on a row that another signup had created (and that was verified
\* in between, which only a second upsert can undo).
StaleUpsertDone ==
  /\ last.op = "signup" /\ last.msg = "OTP sent for signup"
  /\ okCount[last.phoneNumber] = 1
  /\ \E u \in DOMAIN users :
       users[u].phoneNumber = last.phoneNumber /\ users[u].status = "pending"

\* C2 (as claimed): once a row has status 'verified', no step sets it back
\* to 'pending'.
VerifiedIsTerminal ==
  [][\A u \in DOMAIN users : users[u].status = "verified" => users'[u].status = "verified"]_vars

\* C3 (as claimed): for one user, exactly one verify-signup request ever
\* performs the pending -> verified transition and answers 'Signup
\* successful'; every other approved one answers 400.
OneSignupSuccess == \A p \in Phones : okCount[p] <= 1

\* C4: a step issues a token (answers 'Login successful') only as the lookup
\* step of a verify-login request whose verdict was 'approved', and only when
\* a row with that phoneNumber and status 'verified' exists at that lookup;
\* every other step leaves the issued tokens unchanged.
TokenOnlyForVerified ==
  [][ /\ (tokens' # tokens => last'.msg = "Login successful")
      /\ (last'.msg = "Login successful" =>
            /\ \E i \in Slots :
                 /\ reqs[i].op = "verify-login" /\ reqs[i].pc = "find"
                 /\ reqs[i].phoneNumber = last'.phoneNumber
                 /\ reqs'[i].op = "idle"
            /\ \E u \in DOMAIN users :
                 users[u].phoneNumber = last'.phoneNumber /\ users[u].status = "verified"
            /\ tokens' = tokens \cup {jwtSign(last'.phoneNumber, now)})
      /\ (last'.op = "verify-login" /\ last'.status # 200 => tokens' = tokens) ]_vars

\* C4 witness: a token has just been issued for a verified phone number while
\* the other phone number, whose row is pending, holds none.
TokenIssued ==
  /\ last.op = "verify-login" /\ last.status = 200
  /\ \E t \in tokens : t.phoneNumber = last.phoneNumber
  /\ \E u \in DOMAIN users :
       /\ users[u].status = "pending"
       /\ \A t \in tokens : t.phoneNumber # users[u].phoneNumber

\* C21: a POST /signup that arrives while the row of its phone number is
\* pending is not refused with 400 and finds that row; every step of a
\* signup that found a pending row leaves the users collection unchanged
\* (the row keeps its id, its status and its stored profile fields, whatever
\* profile fields the request supplies), and the request ends with the
\* dispatch: 200 'OTP sent again for signup' when verifications.create
\* resolved, 500 when it threw.
SignupRetryChangesNothing ==
  [][ /\ \A p \in Phones :
           RowOf(users, p).status = "pending" =>
             ~(last'.op = "signup" /\ last'.phoneNumber = p /\ last'.status = 400)
      /\ \A i \in Slots :
           /\ (/\ reqs[i].op = "idle" /\ reqs'[i].op = "signup"
               /\ RowOf(users, reqs'[i].phoneNumber).status = "pending") =>
                 /\ reqs'[i].found = "pending" /\ reqs'[i].pc = "dispatch"
                 /\ users' = users
           /\ (reqs[i].op = "signup" /\ reqs[i].found = "pending" /\ reqs'[i] # reqs[i]) =>
                 /\ users' = users
                 /\ reqs'[i] = Idle
                 /\ last' \in {SignupResp(reqs[i].phoneNumber, reqs[i].profile, 200,
                                          "OTP sent again for signup"),
                               SignupResp(reqs[i].phoneNumber, reqs[i].profile, 500, "error")}
                 /\ (last'.status = 200 => reqs[i].phoneNumber \in dispatched') ]_vars

\* C21 witness: a signup that supplied other profile fields than the stored
\* ones has just been answered 'OTP sent again for signup', and the row is
\* pending with its stored profile fields.
RetryAnswered ==
  /\ last.op = "signup" /\ last.msg = "OTP sent again for signup"
  /\ RowOf(users, last.phoneNumber).status = "pending"
  /\ RowOf(users, last.phoneNumber).profile # last.profile

\* every pending row, and every signup waiting to perform its upsert, is for
\* a phone number for which verifications.create has resolved
PendingOnlyAfterDispatch ==
  /\ \A u \in DOMAIN users :
       users[u].status = "pending" => users[u].phoneNumber \in dispatched
  /\ \A i \in Slots :
       (reqs[i].op = "signup" /\ reqs[i].pc = "upsert") => reqs[i].phoneNumber \in dispatched

\* C22: a signup that found no row performs its upsert only after
\* verifications.create has resolved for its phone number: when the dispatch
\* throws, the request ends there with 500 and the users collection is
\* unchanged; a row is created only by the step that answers 'OTP sent for
\* signup', for a phone number with a resolved dispatch; so in every state
\* a pending row exists only for such phone numbers.
DispatchPrecedesUpsert ==
  /\ []PendingOnlyAfterDispatch
  /\ [][ /\ \A i \in Slots :
              (/\ reqs[i].op = "signup" /\ reqs[i].pc = "dispatch" /\ reqs'[i] # reqs[i]
               /\ reqs[i].phoneNumber \notin dispatched') =>
                /\ last' = SignupResp(reqs[i].phoneNumber, reqs[i].profile, 500, "error")
                /\ reqs'[i] = Idle
                /\ users' = users
         /\ (last'.op = "signup" /\ last'.status = 500) => users' = users
         /\ \A u \in DOMAIN users' \ DOMAIN users :
              /\ users'[u].phoneNumber \in dispatched
              /\ last'.op = "signup" /\ last'.msg = "OTP sent for signup"
              /\ last'.phoneNumber = users'[u].phoneNumber ]_vars

\* C22 witness: a signup for a phone number without a row has just been
\* answered 500 after its dispatch threw: the phone number has no row and no
\* resolved dispatch, while the other phone number has both.
DispatchFailedNoRow ==
  /\ last.op = "signup" /\ last.status = 500
  /\ ByPhone(users, last.phoneNumber) = {}
  /\ last.phoneNumber \notin dispatched
  /\ \E u \in DOMAIN users :
       users[u].status = "pending" /\ users[u].phoneNumber \in dispatched

----------------------------------------------------------------------------
(* Properties of a sequential run, checked under SpecSeq *)

\* the logged answers to the requests for phone number p, in order
ForPhone(tr, p) == SelectSeq(tr, LAMBDA e : e.phoneNumber = p)

\* the log shows, for phone number p, a signup whose code was dispatched,
\* a verify-signup the provider answered with a verdict other than
\* 'approved', a verify-signup it approved, and a signup, in this order
ScenarioRun(t) ==
  /\ Len(t) >= 4
  /\ t[1].op = "signup" /\ t[1].status # 500
  /\ t[2].op = "verify-signup" /\ t[2].status = 400 /\ t[2].msg \in Verdicts
  /\ t[3].op = "verify-signup" /\ t[3].msg \notin Verdicts
  /\ t[4].op = "signup"

\* C16: when the requests for a phone number, none of which is in the store
\* at the start, are in order signup, verify-signup with a rejected code,
\* verify-signup with an approved code, signup, each sent after the answer
\* to the one before, the answers are 200 'OTP sent for signup' (row
\* pending), the 400 with the verdict (row pending, unchanged), 200 'Signup
\* successful' (row verified) and 400 'You have already signed up and are
\* verified.' (row verified, unchanged).
ScenarioOutcomes ==
  \A p \in Phones :
    LET t == ForPhone(trace, p) IN
    ScenarioRun(t) =>
      /\ t[1].status = 200 /\ t[1].msg = "OTP sent for signup"
      /\ t[1].row.status = "pending"
      /\ t[2].row = t[1].row
      /\ t[3].status = 200 /\ t[3].msg = "Signup successful"
      /\ t[3].row = [t[2].row EXCEPT !.status = "verified"]
      /\ t[4].status = 400 /\ t[4].msg = "You have already signed up and are verified."
      /\ t[4].row = t[3].row

\* C16 witness: the four requests of the scenario have been answered for
\* one phone number, the second signup just now, and the row is verified.
ScenarioDone ==
  \E p \in Phones :
    /\ ScenarioRun(ForPhone(trace, p))
    /\ last.op = "signup" /\ last.phoneNumber = p
    /\ RowOf(users, p).status = "verified"

----------------------------------------------------------------------------
(* Properties of the catalog routes, checked under SpecCatalog *)

\* collection c after the step
CollNext(c) == IF c = "products" THEN products' ELSE services'

\* the document the answer of the step is about, as stored before the step
Target == Coll(last'.coll)[last'.id]

\* the step completes the PUT that slot i held at its write, and nothing
\* was written to the document since that PUT read it
FreshPutBy(i) ==
  /\ reqs[i].op = "put" /\ reqs[i].pc = "write" /\ reqs'[i].op = "idle"
  /\ reqs[i].coll = last'.coll /\ reqs[i].id = last'.id
  /\ last'.id \in DOMAIN Coll(last'.coll)
  /\ reqs[i].snapshot = Target

\* C5: a step changes or removes a document only as the successful PUT or
\* DELETE of a caller who resolved to the user whose _id is the document's
\* userId.
OnlyOwnerWrites ==
  [][\A c \in Colls : \A id \in DOMAIN Coll(c) :
       (id \notin DOMAIN CollNext(c) \/ CollNext(c)[id] # Coll(c)[id]) =>
         /\ last'.op \in {"put", "delete"} /\ last'.status = 200
         /\ last'.coll = c /\ last'.id = id
         /\ last'.uid = Coll(c)[id].userId
         /\ last'.uid \in DOMAIN users
         /\ users[last'.uid].phoneNumber = last'.phoneNumber]_vars

\* C5 witness: a PUT by a caller who is not the owner has just been refused
\* and the document is still stored.
ForeignPutRefused ==
  /\ last.op = "put" /\ last.status = 404 /\ last.uid # 0
  /\ last.id \in DOMAIN Coll(last.coll)
  /\ Coll(last.coll)[last.id].userId # last.uid

\* C6: for a verified caller, the answer of GET :id for a document owned by
\* another user is the answer the same request gets in the store without that
\* document.
NotOwnedLooksAbsent ==
  \A c \in Colls : \A id \in DOMAIN Coll(c) : \A u \in DOMAIN users :
    (users[u].status = "verified" /\ Coll(c)[id].userId # u) =>
      /\ GetAnswer(Coll(c), id, u) = GetAnswer(Without(Coll(c), id), id, u)
      /\ GetAnswer(Coll(c), id, u).status = 404

\* C6 witness: a GET by a verified caller for a stored document of another
\* user has just answered 404.
ForeignGetAnswered ==
  /\ last.op = "get" /\ last.status = 404 /\ last.uid # 0
  /\ last.id \in DOMAIN Coll(last.coll)
  /\ Coll(last.coll)[last.id].userId # last.uid

\* C7: the DELETE step of a resolved caller for a document whose userId is
\* not the caller's _id answers 404 and leaves both collections unchanged.
ForeignDeleteIsNoop ==
  [][(/\ last'.op = "delete" /\ last'.uid # 0
      /\ last'.id \in DOMAIN Coll(last'.coll)
      /\ Target.userId # last'.uid) =>
        /\ last'.status = 404
        /\ products' = products /\ services' = services]_vars

\* C7 witness: such a DELETE has just answered 404 and the document is there.
ForeignDeleteRefused ==
  /\ last.op = "delete" /\ last.status = 404 /\ last.uid # 0
  /\ last.id \in DOMAIN Coll(last.coll)
  /\ Coll(last.coll)[last.id].userId # last.uid

\* C8: a PUT that answers 'updated successfully', with no write to the
\* document between its read and its write, leaves the supplied fields at
\* the supplied values and every other field, the owner and the _id as they
\* were; no other document changes.
PutPreservesOtherFields ==
  [][(last'.op = "put" /\ last'.status = 200 /\ \E i \in Slots : FreshPutBy(i)) =>
       LET c == last'.coll
           id == last'.id
           b == last'.body IN
       /\ DOMAIN CollNext(c) = DOMAIN Coll(c)
       /\ CollNext(c)[id].userId = Coll(c)[id].userId
       /\ \A f \in Fields :
            CollNext(c)[id][f] = IF f \in b.has THEN b[f] ELSE Coll(c)[id][f]
       /\ DOMAIN CollNext(c)[id] = DOMAIN Coll(c)[id]
       /\ \A x \in DOMAIN Coll(c) \ {id} : CollNext(c)[x] = Coll(c)[x]]_vars

\* C8 witness: a PUT supplying only the name has just succeeded on a
\* document that holds an attachment handle.
PutOneFieldDone ==
  /\ last.op = "put" /\ last.status = 200 /\ last.body.has = {"name"}
  /\ last.id \in DOMAIN Coll(last.coll)
  /\ Coll(last.coll)[last.id].name = last.body.name
  /\ Coll(last.coll)[last.id].images \o Coll(last.coll)[last.id].videos # <<>>

\* C9 (as claimed): the write step of a PUT by the owner whose supplied
\* fields all equal the stored values (those it read and those stored when
\* it writes), or that supplies no field, answers 'update failed' (500) and
\* leaves the collections unchanged.
NoopPutFails ==
  [][(/\ last'.op = "put"
      /\ \E i \in Slots :
           /\ reqs[i].op = "put" /\ reqs[i].pc = "write" /\ reqs'[i].op = "idle"
           /\ \A f \in last'.body.has : last'.body[f] = reqs[i].snapshot[f]
      /\ last'.id \in DOMAIN Coll(last'.coll)
      /\ Target.userId = last'.uid
      /\ \A f \in last'.body.has : last'.body[f] = Target[f]) =>
        /\ last'.status = 500 /\ last'.msg = "update failed"
        /\ products' = products /\ services' = services]_vars

\* C10 (as claimed): every handle in the images and videos of every stored
\* document names a file of the bucket.
HandlesExist ==
  \A c \in Colls : \A id \in DOMAIN Coll(c) :
    /\ \A k \in 1..Len(Coll(c)[id].images) : Coll(c)[id].images[k] \in blobs
    /\ \A k \in 1..Len(Coll(c)[id].videos) : Coll(c)[id].videos[k] \in blobs

\* C17: no step changes the userId of a stored record: a record that is
\* stored before and after a step (a create, update or delete by any caller,
\* or any other step) has the same userId after it, and a record a step
\* inserts has an _id no stored record has.
OwnerNeverChanges ==
  [][(products' # products \/ services' # services) =>
       \A c \in Colls :
         /\ \A id \in DOMAIN Coll(c) \cap DOMAIN CollNext(c) :
              CollNext(c)[id].userId = Coll(c)[id].userId
         /\ \A id \in DOMAIN CollNext(c) \ DOMAIN Coll(c) :
              id \notin DOMAIN products \cup DOMAIN services]_vars

\* C17 witness: the owner's PUT replacing the images of a record has just
\* succeeded, and the record is still the caller's.
OwnerKeptAfterPut ==
  /\ last.op = "put" /\ last.status = 200 /\ last.body.has = {"images"}
  /\ last.id \in DOMAIN Coll(last.coll)
  /\ Coll(last.coll)[last.id].images = last.body.images
  /\ Coll(last.coll)[last.id].userId = last.uid

\* C20 (as claimed): a PUT that answers 'updated successfully' leaves every
\* field absent from its body at the value stored before its write, also
\* when another PUT wrote the record after this one read it.
PutKeepsAbsentFields ==
  [][(last'.op = "put" /\ last'.status = 200) =>
       \A f \in Fields \ last'.body.has :
         CollNext(last'.coll)[last'.id][f] = Coll(last'.coll)[last'.id][f]]_vars

----------------------------------------------------------------------------
(* Properties of creation with attachments and of the streaming routes,    *)
(* checked under SpecFiles                                                 *)

\* the id of the upload stream opened for the k-th file of the create
\* request that r answers
FileId(r, k) == r.id - Len(r.files) + k - 1

\* the number of files of kind kd in a batch
CountKind(files, kd) == Cardinality({k \in 1..Len(files) : files[k] = kd})

\* the elements of a sequence
Range(q) == {q[k] : k \in 1..Len(q)}

\* C11 (as claimed): when a creation has answered 201, no file of its batch
\* whose content type is neither image/* nor video/* is held by the bucket
\* or listed in the images or videos of the created record.
UnrecognizedNotStored ==
  (last.op = "create" /\ last.status = 201) =>
    \A k \in 1..Len(last.files) :
      last.files[k] = "other" =>
        /\ FileId(last, k) \notin blobs
        /\ FileId(last, k) \notin Range(Coll(last.coll)[last.id].images)
        /\ FileId(last, k) \notin Range(Coll(last.coll)[last.id].videos)

\* C12 (as claimed): when a creation has answered 201, the record's images
\* hold one distinct handle per image file of the batch, its videos one
\* distinct handle per video file, and every one of these handles streams
\* (GET /image/:fileId, GET /video/:fileId answer the file).
CreatedHandlesStreamable ==
  (last.op = "create" /\ last.status = 201) =>
    LET doc == Coll(last.coll)[last.id] IN
    /\ Len(doc.images) = CountKind(last.files, "image")
    /\ Len(doc.videos) = CountKind(last.files, "video")
    /\ Cardinality(Range(doc.images) \cup Range(doc.videos)) = Len(doc.images) + Len(doc.videos)
    /\ \A h \in Range(doc.images) \cup Range(doc.videos) : StreamAnswer(blobs, h).status = 200

\* C18 (as claimed): GET /image/:fileId and GET /video/:fileId for an id that
\* names no file of the bucket, whatever its form, answer 404.
UnknownHandleIs404 ==
  (last.op \in StreamRoutes /\ last.id \notin blobs) => last.status = 404

----------------------------------------------------------------------------
(* Properties of the caller lookup, checked under SpecCaller *)

CatOps == {"create", "list", "get", "put", "delete"}

\* a row with this phoneNumber and status 'verified' exists
VerifiedNow(p) == \E u \in DOMAIN users : users[u].phoneNumber = p /\ users[u].status = "verified"

\* C13: a catalog request (create, list, get, update, delete) gets past the
\* caller lookup only if, at that step, a row with the token's phoneNumber
\* and status 'verified' exists, and it then acts as that row's _id; when no
\* such row exists the request is answered 400 'User not registered or not
\* verified' at once and the collections, the bucket and the open uploads
\* are unchanged; a record is inserted only by a create request that passed
\* the lookup, with the _id found there as its userId.
CallerResolvedEachRequest ==
  [][ /\ \A i \in Slots :
           (reqs[i].op = "idle" /\ reqs'[i].op \in CatOps) =>
             /\ reqs'[i].uid \in DOMAIN users
             /\ users[reqs'[i].uid].phoneNumber = reqs'[i].phoneNumber
             /\ users[reqs'[i].uid].status = "verified"
             /\ authenticateToken(reqs'[i].cred, now).phoneNumber = reqs'[i].phoneNumber
      /\ (last'.op \in CatOps /\ reqs' = reqs /\ ~VerifiedNow(last'.phoneNumber)) =>
             /\ last'.status = 400 /\ last'.msg = "User not registered or not verified"
             /\ catVars' = catVars /\ nextId' = nextId /\ users' = users
      /\ \A c \in Colls : \A id \in DOMAIN CollNext(c) \ DOMAIN Coll(c) :
           \E i \in Slots :
             /\ reqs[i].op = "create" /\ reqs'[i].op = "idle"
             /\ CollNext(c)[id].userId = reqs[i].uid
             /\ reqs[i].uid \in DOMAIN users ]_vars

\* C13 witness: a catalog request with a valid token has just been refused
\* because the row of its phone number is no longer 'verified', while a
\* record that this user created when verified is stored.
CallerRefused ==
  /\ last.op \in CatOps /\ last.status = 400
  /\ authenticateToken(last.cred, now).phoneNumber = last.phoneNumber
  /\ \E u \in DOMAIN users :
       /\ users[u].phoneNumber = last.phoneNumber /\ users[u].status = "pending"
       /\ \E c \in Colls : \E id \in DOMAIN Coll(c) : Coll(c)[id].userId = u

----------------------------------------------------------------------------
(* Properties of the tokens and of GET /user/:id, checked under SpecToken *)

NineHours == 9 * 60 * 60

\* c is a token the server issued and its nine hours have not passed at t
TokenGood(c, t) == c \in tokens /\ t < c.iat + NineHours

\* C14: on a token-protected route, a request without a token is answered
\* 401 and a request whose token fails verification (not signed by the
\* server, or expired) is answered 403, in both cases at once and with the
\* users, the collections and the bucket unchanged; a handler starts only
\* for a token that verifies.
AuthGate ==
  [][ /\ \A i \in Slots :
           (reqs[i].op = "idle" /\ reqs'[i].op \in ProtectedOps) => TokenGood(reqs'[i].cred, now)
      /\ (last'.op \in ProtectedOps /\ reqs' = reqs) =>
           /\ (last'.cred.kind = "none" =>
                 last'.status = 401 /\ users' = users /\ catVars' = catVars)
           /\ (last'.cred.kind # "none" /\ ~TokenGood(last'.cred, now) =>
                 last'.status = 403 /\ users' = users /\ catVars' = catVars) ]_vars

\* C14 witness: a token the server issued has just been refused with 403,
\* nine hours after its issue.
ExpiredTokenRefused ==
  /\ last.op \in ProtectedOps /\ last.status = 403
  /\ last.cred \in tokens /\ now >= last.cred.iat + NineHours

\* C15: a token is issued only by the step that answers 'Login successful',
\* for the phone number of that request and with the time of that step as
\* its issue time; at every time before issue time + 9 hours it verifies to
\* that phone number, at and after that time its verification fails; a
\* token the server did not sign never verifies.
TokenRoundTrip ==
  [][ /\ \A t \in tokens' \ tokens :
           /\ last'.msg = "Login successful"
           /\ t.phoneNumber = last'.phoneNumber /\ t.iat = now
      /\ \A t \in tokens' :
           IF now' < t.iat + NineHours
             THEN authenticateToken(t, now') =
                    [status |-> 0, msg |-> "", phoneNumber |-> t.phoneNumber]
             ELSE authenticateToken(t, now').status = 403
      /\ \A p \in Phones : authenticateToken(Forged(p), now').status = 403 ]_vars

\* C15 witness: GET /user/:id has just been answered with the row of the
\* phone number of a token issued after time 0, at a time when a token
\* issued at time 0 has expired.
LaterTokenStillVerifies ==
  /\ last.op = "user" /\ last.status = 200 /\ last.cred.iat > 0
  /\ users[last.uid].phoneNumber = last.cred.phoneNumber
  /\ \E t \in tokens : now >= t.iat + NineHours

\* C19 (as claimed): GET /user/:id returns a row only when the row with that
\* id has the phone number of the caller's token; for every other id it is
\* refused (403 or 404) and returns no row.
OwnProfileOnly ==
  (last.op = "user" /\ last.status \notin {401, 403}) =>
    IF last.id \in DOMAIN users /\ users[last.id].phoneNumber = last.phoneNumber
      THEN last.status = 200 => last.uid = last.id
      ELSE last.status = 404 /\ last.uid = 0

====
